---- MODULE Spec2Model ----
(***************************************************************************)
(* Model of app.py (Cap1995/horario): 20-minute reservations backed by an  *)
(* SQLite table with UNIQUE(fecha, hora), two st.cache_data read caches    *)
(* shared by every browser session of the process, and the slot generator. *)
(*                                                                         *)
(* Strings are sequences of character codes, so that str comparison,       *)
(* strftime and str.strip are computed and not assumed.                    *)
(***************************************************************************)
EXTENDS Integers, Sequences, FiniteSets, TLC

VARIABLES
    tabla,        \* rows of the reservas table (src/app.py:34-43)
    cacheDia,     \* st.cache_data store of leer_reservas_dia: fecha_str -> DataFrame
    cacheTodas,   \* st.cache_data store of leer_todas_reservas: <<>> or <<DataFrame>>
    ses,          \* per browser session: position in the script and its locals
    ejecuciones,  \* script runs started so far (bounds the model)
    borrados,     \* borrar_reservas_dia calls started so far (bounds the model)
    llamadas,     \* history: agregar_reserva calls (arguments and result) since the last DELETE of their date
    cfg,          \* slot generator harness: the day configuration under test
    fechaCfg,     \* slot generator harness: the date under test
    salida,       \* slot generator harness: the list the generator returned
    fase          \* slot generator harness: "entrada", "hecho" or "codigo"

vars == <<tabla, cacheDia, cacheTodas, ses, ejecuciones, borrados, llamadas,
          cfg, fechaCfg, salida, fase>>
varsApp == <<tabla, cacheDia, cacheTodas, ses, ejecuciones, borrados, llamadas>>
varsSlots == <<cfg, fechaCfg, salida, fase>>

-----------------------------------------------------------------------------
(* Bounds of the model *)

NumSesiones == 2       \* concurrent browser sessions
MaxEjecuciones == 2    \* script runs over all sessions
MaxBorrados == 1       \* borrar_reservas_dia calls over all sessions
MaxPick == 2           \* the user picks among the first MaxPick options of the selectbox
MaxEjecucionesCarrera == 3   \* script runs over all sessions in SpecCarrera

Sesiones == 1..NumSesiones

\* Days of the month the users select in st.date_input.
Fechas == {1, 2}


-----------------------------------------------------------------------------
(* Strings *)

SP == 32               \* ' '
COLON == 58            \* ':'
Digito(n) == 48 + n    \* '0'..'9'

\* Python str comparison a < b: lexicographic on code points.
RECURSIVE StrLt(_, _)
StrLt(a, b) ==
    IF b = <<>> THEN FALSE
    ELSE IF a = <<>> THEN TRUE
    ELSE IF Head(a) # Head(b) THEN Head(a) < Head(b)
    ELSE StrLt(Tail(a), Tail(b))

StrLeq(a, b) == a = b \/ StrLt(a, b)

\* str.lstrip / str.rstrip / str.strip on the whitespace of the model (' ').
RECURSIVE LStrip(_)
LStrip(s) == IF s # <<>> /\ Head(s) = SP THEN LStrip(Tail(s)) ELSE s

RECURSIVE RStrip(_)
RStrip(s) ==
    IF s # <<>> /\ s[Len(s)] = SP THEN RStrip(SubSeq(s, 1, Len(s) - 1)) ELSE s

\* mutant of Strip: the text is passed on as typed
SinStrip(s) == s

Strip(s) == RStrip(LStrip(s))

\* date.isoformat(): "yyyy-mm-dd". Every date of the model lies in the same
\* month, so the common "yyyy-mm-" prefix is left out and the two day digits kept.
IsoFormat(d) == <<Digito(d \div 10), Digito(d % 10)>>

-----------------------------------------------------------------------------
(* Configuration, src/app.py:19-25 *)

Time(h, m) == h * 60 + m          \* datetime.time(h, m), as minutes of the day

INICIO == Time(9, 0)
FIN == Time(18, 0)
BLOQUEO_INICIO == Time(13, 0)
BLOQUEO_FIN == Time(14, 0)
INTERVALO_MIN == 20

MinutosDia == 24 * 60

-----------------------------------------------------------------------------
(* Slot generator, src/app.py:167-176 *)

\* time.strftime("%H:%M")
StrfHM(h) ==
    <<Digito((h \div 60) \div 10), Digito((h \div 60) % 10), COLON,
      Digito((h % 60) \div 10), Digito((h % 60) % 10)>>

\* datetime.combine(d, t): minutes since the start of day 0
Combine(d, t) == d * MinutosDia + t

\* datetime.time(): the time of day, the date dropped
TimeOf(t) == t % MinutosDia

\* mutant of EnBloqueo: the start of the blackout is left out of it
EnBloqueoAbierto(h, bi, bf) == bi < h /\ h < bf

\* BLOQUEO_INICIO <= h < BLOQUEO_FIN, line 173
EnBloqueo(h, bi, bf) == bi <= h /\ h < bf

\* mutant of SigueBucle: the end of the day is left out of the loop
SigueBucleEstricto(t, fin_dt) == t < fin_dt

\* the loop test of line 171
SigueBucle(t, fin_dt) == t <= fin_dt

\* the while loop of lines 171-175
RECURSIVE Bucle(_, _, _, _, _, _)
Bucle(t, fin_dt, slots, bi, bf, iv) ==
    IF SigueBucle(t, fin_dt)
    THEN LET h == TimeOf(t)
         IN  Bucle(t + iv, fin_dt,
                   IF ~EnBloqueo(h, bi, bf) THEN Append(slots, StrfHM(h)) ELSE slots,
                   bi, bf, iv)
    ELSE slots

\* [s for s in slots if s <= FIN.strftime("%H:%M")], line 176
FiltroFin(slots, fin) == SelectSeq(slots, LAMBDA s : StrLeq(s, StrfHM(fin)))

\* generar_slots with the module-level configuration as parameters
SlotsDe(d, inicio, fin, bi, bf, iv) ==
    FiltroFin(Bucle(Combine(d, inicio), Combine(d, fin), <<>>, bi, bf, iv), fin)

generar_slots(d) ==
    SlotsDe(d, INICIO, FIN, BLOQUEO_INICIO, BLOQUEO_FIN, INTERVALO_MIN)

ConfigPorDefecto ==
    [inicio |-> INICIO, fin |-> FIN, bi |-> BLOQUEO_INICIO, bf |-> BLOQUEO_FIN,
     iv |-> INTERVALO_MIN]

-----------------------------------------------------------------------------
(* Reservation store, src/app.py:31-80 *)

\* mutant of Fila: contacto and comentario are bound to each other's column
FilaCruzada(f, h, n, c, m, ts) ==
    [fecha |-> f, hora |-> h, nombre |-> n, contacto |-> m, comentario |-> c,
     created_at |-> ts]

\* One row of reservas, as the SELECTs of lines 62 and 71 return it (the id
\* column is read nowhere).
Fila(f, h, n, c, m, ts) ==
    [fecha |-> f, hora |-> h, nombre |-> n, contacto |-> c, comentario |-> m,
     created_at |-> ts]

\* mutant of ViolaUnique: the table has no UNIQUE constraint
SinUnique(t, f, h) == FALSE

\* mutant of ViolaUnique: the constraint is UNIQUE(hora)
ViolaUniqueSoloHora(t, f, h) == \E r \in t : r.hora = h

\* UNIQUE(fecha, hora), line 42: would inserting (f, h) raise IntegrityError?
ViolaUnique(t, f, h) == \E r \in t : r.fecha = f /\ r.hora = h

\* mutant of TablaTrasInsert: INSERT OR REPLACE
TablaTrasReplace(t, fila) ==
    {r \in t : ~(r.fecha = fila.fecha /\ r.hora = fila.hora)} \cup {fila}

\* the table after the INSERT of lines 50-53 (unchanged when it raises)
TablaTrasInsert(t, fila) ==
    IF ViolaUnique(t, fila.fecha, fila.hora) THEN t ELSE t \cup {fila}

\* mutant of agregar_reserva: the IntegrityError is swallowed as a success
agregar_reserva_SiempreTrue(t, fila) == TRUE

\* the value agregar_reserva returns, lines 54-56
agregar_reserva(t, fila) == ~ViolaUnique(t, fila.fecha, fila.hora)

\* SELECT ... FROM reservas WHERE fecha = ?, lines 61-64
leer_reservas_dia(t, f) == {r \in t : r.fecha = f}

\* ORDER BY fecha, hora (line 71): r comes before q
Antes(r, q) ==
    StrLt(r.fecha, q.fecha) \/ (r.fecha = q.fecha /\ StrLt(r.hora, q.hora))

\* SELECT ... FROM reservas ORDER BY fecha, hora, lines 70-73
RECURSIVE leer_todas_reservas(_)
leer_todas_reservas(t) ==
    IF t = {} THEN <<>>
    ELSE LET r == CHOOSE x \in t : \A y \in t \ {x} : Antes(x, y)
         IN  <<r>> \o leer_todas_reservas(t \ {r})

\* mutant of TablaTrasDelete: the DELETE has no WHERE clause
TablaTrasDeleteTodo(t, f) == {}

\* DELETE FROM reservas WHERE fecha = ?, line 78
TablaTrasDelete(t, f) == {r \in t : r.fecha # f}

\* st.cache_data: the store with the entry of key k set to v
CachePut(c, k, v) == [x \in DOMAIN c \cup {k} |-> IF x = k THEN v ELSE c[x]]

\* cached function .clear(): every entry of the function is dropped
CacheVacia == <<>>

\* mutant of Clear: the entries are left in the store
ClearOlvidado(c) == c

\* the store of a cached function after its .clear(), lines 79, 80 and 224
Clear(c) == CacheVacia

-----------------------------------------------------------------------------
(* Availability, src/app.py:188-191 *)

\* set(df_dia["hora"].tolist()), line 189
Ocupadas(df) == {r.hora : r \in df}

\* mutant of Disponibles: the taken slots are not filtered out
DisponiblesSinFiltro(todos, ocupadas) == todos

\* [s for s in todos_slots if s not in ocupadas], line 191
Disponibles(todos, ocupadas) == SelectSeq(todos, LAMBDA s : s \notin ocupadas)

-----------------------------------------------------------------------------
(* Form inputs, src/app.py:210-214 *)

LetraA == 97
LetraB == 98
LetraC == 99

\* what the users type into "Nombre"
Nombres == {<<>>, <<SP>>, <<SP, LetraA, SP>>, <<LetraB>>}

\* what the users type into "Contacto" and "Comentario"
Contactos == {<<LetraC, SP>>}
Comentarios == {<<>>}

\* st.selectbox over an empty options list returns None; None is falsy, as
\* the empty string is.
NoSlot == <<>>

\* st.selectbox(options=disponibles): the i-th option, line 210
Selectbox(disp, i) == IF disp = <<>> THEN NoSlot ELSE disp[i]

\* Python truth value of a str or None, lines 216 and 218
Falsy(x) == x = <<>>

-----------------------------------------------------------------------------
(* Sessions *)

\* The locals of one script run and where the run stands:
\*   pc          "espera" (no run in progress), "l188", "l188w", "form", "l224",
\*               "l225", "l225w", "l246", "l246w", "l259": the line the run is
\*               at ("w": the cached function has computed its value and has
\*               not stored it yet); "b79", "b80": inside borrar_reservas_dia
\*   fecha       the date of st.date_input (0: none), enviar: form submitted
\*   df_dia, disponibles, df_all: the script's variables of those names
\*   calc        the value a cached function has computed and not yet stored
\*   resultado   "ninguno", "aviso_slot" (line 217), "aviso_nombre" (line 219),
\*               "confirmada" (line 223) or "conflicto" (line 227)
\*   slot, nombre: the submitted slot and the stripped name
\*   tecleado    the text of the "Nombre" input as it was submitted
\* and, as history of the run for the properties:
\*   ejec        the number of the run
\*   nllam       agregar_reserva calls made by the run
\*   tomado      the submitted key had a row in the table when it was submitted
\*   tras        the date this session wrote (booked or deleted) and has not
\*               read since, <<>> if none
SesionInicial ==
    [pc |-> "espera", ejec |-> 0, fecha |-> 0, enviar |-> FALSE, df_dia |-> {},
     calc |-> {}, disponibles |-> <<>>, df_all |-> <<>>, resultado |-> "ninguno",
     slot |-> NoSlot, nombre |-> <<>>, tecleado |-> <<>>, nllam |-> 0,
     tomado |-> FALSE, tras |-> <<>>]

FechaStr(s) == IsoFormat(ses[s].fecha)

\* reservas.db outlives the process (CREATE TABLE IF NOT EXISTS, line 34): the
\* table starts with the rows earlier runs committed. Here every slot of
\* day 2 is taken and day 1 is free.
ReservasPrevias ==
    {Fila(IsoFormat(2), generar_slots(2)[i], <<LetraA>>, <<>>, <<>>, 0) :
        i \in 1..Len(generar_slots(2))}

InitApp ==
    /\ tabla = ReservasPrevias
    /\ cacheDia = CacheVacia
    /\ cacheTodas = <<>>
    /\ ses = [s \in Sesiones |-> SesionInicial]
    /\ ejecuciones = 0
    /\ borrados = 0
    /\ llamadas = {}

InitSlotsFijo ==
    /\ cfg = ConfigPorDefecto
    /\ fechaCfg = 1
    /\ salida = <<>>
    /\ fase = "entrada"

Init == InitApp /\ InitSlotsFijo

\* A browser event reruns the script from the top: the user has picked the
\* date d (line 185) and has pressed "Reservar" (e) or not.
IniciarHasta(s, d, e, max) ==
    /\ ses[s].pc = "espera"
    /\ ejecuciones < max
    /\ ejecuciones' = ejecuciones + 1
    /\ ses' = [ses EXCEPT ![s] =
                 [SesionInicial EXCEPT !.pc = "l188", !.ejec = ejecuciones + 1,
                                       !.fecha = d, !.enviar = e,
                                       !.tras = ses[s].tras]]
    /\ UNCHANGED <<tabla, cacheDia, cacheTodas, borrados, llamadas>>
    /\ UNCHANGED varsSlots

Iniciar(s, d, e) == IniciarHasta(s, d, e, MaxEjecuciones)

\* the date of the pending write of session s is read now: the mark is dropped
TrasLeer(s) == IF ses[s].tras = FechaStr(s) THEN <<>> ELSE ses[s].tras

\* lines 231-256: the day's table is shown (no state is touched), and the
\* export calls leer_todas_reservas only when df_dia is not empty
Mostrar(df) == IF df # {} THEN "l246" ELSE "l259"

\* where the script goes once leer_reservas_dia has returned df
TrasLeerDia(aqui, df) == IF aqui \in {"l188", "l188w"} THEN "form" ELSE Mostrar(df)

\* lines 189-191 follow the read of line 188 only: the read of line 225
\* replaces df_dia and leaves disponibles as it was
DisponiblesTras(s, aqui, df) ==
    IF aqui \in {"l188", "l188w"}
    THEN Disponibles(generar_slots(ses[s].fecha), Ocupadas(df))
    ELSE ses[s].disponibles

\* @st.cache_data leer_reservas_dia(fecha_str), cache hit: the stored value
\* is returned (lines 58, 188 and 225).
LeerDiaHit(s, aqui) ==
    /\ ses[s].pc = aqui
    /\ FechaStr(s) \in DOMAIN cacheDia
    /\ ses' = [ses EXCEPT ![s].pc = TrasLeerDia(aqui, cacheDia[FechaStr(s)]),
                          ![s].df_dia = cacheDia[FechaStr(s)],
                          ![s].disponibles = DisponiblesTras(s, aqui, cacheDia[FechaStr(s)]),
                          ![s].tras = TrasLeer(s)]
    /\ UNCHANGED <<tabla, cacheDia, cacheTodas, ejecuciones, borrados, llamadas>>
    /\ UNCHANGED varsSlots

\* cache miss: the function body runs the SELECT (lines 60-64)
LeerDiaMiss(s, aqui, espera) ==
    /\ ses[s].pc = aqui
    /\ FechaStr(s) \notin DOMAIN cacheDia
    /\ ses' = [ses EXCEPT ![s].pc = espera,
                          ![s].calc = leer_reservas_dia(tabla, FechaStr(s)),
                          ![s].tras = TrasLeer(s)]
    /\ UNCHANGED <<tabla, cacheDia, cacheTodas, ejecuciones, borrados, llamadas>>
    /\ UNCHANGED varsSlots

\* ... and the value it returned is stored in the cache and handed to the caller
LeerDiaGuardar(s, espera) ==
    /\ ses[s].pc = espera
    /\ cacheDia' = CachePut(cacheDia, FechaStr(s), ses[s].calc)
    /\ ses' = [ses EXCEPT ![s].pc = TrasLeerDia(espera, ses[s].calc),
                          ![s].df_dia = ses[s].calc,
                          ![s].disponibles = DisponiblesTras(s, espera, ses[s].calc),
                          ![s].calc = {}]
    /\ UNCHANGED <<tabla, cacheTodas, ejecuciones, borrados, llamadas>>
    /\ UNCHANGED varsSlots

\* line 188
Leer188Hit(s) == LeerDiaHit(s, "l188")
Leer188Miss(s) == LeerDiaMiss(s, "l188", "l188w")
Leer188Guardar(s) == LeerDiaGuardar(s, "l188w")

\* lines 215-227 when "Reservar" was not pressed: enviar is False
FormSinEnviar(s) ==
    /\ ses[s].pc = "form"
    /\ ~ses[s].enviar
    /\ ses' = [ses EXCEPT ![s].pc = Mostrar(ses[s].df_dia)]
    /\ UNCHANGED <<tabla, cacheDia, cacheTodas, ejecuciones, borrados, llamadas>>
    /\ UNCHANGED varsSlots

\* mutant of Resultado: the value agregar_reserva returned is not looked at
ResultadoSinConflicto(slot, nombre, ok) ==
    IF Falsy(slot) THEN "aviso_slot"
    ELSE IF Falsy(Strip(nombre)) THEN "aviso_nombre"
    ELSE "confirmada"

\* the outcome of lines 216-227 for the submitted slot and name
Resultado(slot, nombre, ok) ==
    IF Falsy(slot) THEN "aviso_slot"
    ELSE IF Falsy(Strip(nombre)) THEN "aviso_nombre"
    ELSE IF ok THEN "confirmada"
    ELSE "conflicto"

\* mutant of LlamaAgregar: the name check does not stop the submission
LlamaAgregarSoloSlot(slot, nombre) == ~Falsy(slot)

\* does the submission reach agregar_reserva (line 221)?
LlamaAgregar(slot, nombre) == ~Falsy(slot) /\ ~Falsy(Strip(nombre))

\* mutant of TrasForm: a lost race sends the submission back to the insert
TrasFormReintenta(res, df) ==
    IF res = "confirmada" THEN "l224"
    ELSE IF res = "conflicto" THEN "form"
    ELSE IF df # {} THEN "l246" ELSE "l259"

\* where the script goes after lines 216-227: to the clear of line 224 when
\* the insert succeeded, else past the form (no branch leads back to line 221)
TrasForm(res, df) == IF res = "confirmada" THEN "l224" ELSE Mostrar(df)

\* datetime.now().isoformat(timespec="seconds"), line 52: the clock of the
\* model ticks once per script run
Ahora == ejecuciones

\* lines 215-227 with enviar True: validation, then agregar_reserva
FormEnviar(s, i, nombre, contacto, comentario) ==
    /\ ses[s].pc = "form"
    /\ ses[s].enviar
    /\ i <= IF ses[s].disponibles = <<>> THEN 1 ELSE Len(ses[s].disponibles)
    /\ LET slot == Selectbox(ses[s].disponibles, i)
           fila == Fila(FechaStr(s), slot, Strip(nombre), Strip(contacto),
                        Strip(comentario), Ahora)
           llama == LlamaAgregar(slot, nombre)
           ok == llama /\ agregar_reserva(tabla, fila)
           res == Resultado(slot, nombre, ok)
       IN  /\ tabla' = IF llama THEN TablaTrasInsert(tabla, fila) ELSE tabla
           /\ llamadas' =
                IF llama
                THEN llamadas \cup {[ses |-> s, ejec |-> ses[s].ejec,
                                     fecha |-> FechaStr(s), hora |-> slot,
                                     nombre |-> Strip(nombre),
                                     contacto |-> Strip(contacto),
                                     comentario |-> Strip(comentario),
                                     ok |-> ok]}
                ELSE llamadas
           /\ ses' = [ses EXCEPT
                        ![s].pc = TrasForm(res, ses[s].df_dia),
                        ![s].resultado = res,
                        ![s].slot = slot,
                        ![s].nombre = Strip(nombre),
                        ![s].tecleado = nombre,
                        ![s].nllam = ses[s].nllam + IF llama THEN 1 ELSE 0,
                        ![s].tomado = ~Falsy(slot)
                                      /\ ViolaUnique(tabla, FechaStr(s), slot),
                        ![s].tras = IF res = "confirmada" THEN FechaStr(s)
                                    ELSE ses[s].tras]
    /\ UNCHANGED <<cacheDia, cacheTodas, ejecuciones, borrados>>
    /\ UNCHANGED varsSlots

\* leer_reservas_dia.clear(), line 224
Limpiar224(s) ==
    /\ ses[s].pc = "l224"
    /\ cacheDia' = Clear(cacheDia)
    /\ ses' = [ses EXCEPT ![s].pc = "l225"]
    /\ UNCHANGED <<tabla, cacheTodas, ejecuciones, borrados, llamadas>>
    /\ UNCHANGED varsSlots

\* line 225
Leer225Hit(s) == LeerDiaHit(s, "l225")
Leer225Miss(s) == LeerDiaMiss(s, "l225", "l225w")
Leer225Guardar(s) == LeerDiaGuardar(s, "l225w")

\* @st.cache_data leer_todas_reservas(), line 246: cache hit
LeerTodasHit(s) ==
    /\ ses[s].pc = "l246"
    /\ cacheTodas # <<>>
    /\ ses' = [ses EXCEPT ![s].pc = "l259", ![s].df_all = cacheTodas[1]]
    /\ UNCHANGED <<tabla, cacheDia, cacheTodas, ejecuciones, borrados, llamadas>>
    /\ UNCHANGED varsSlots

\* cache miss: the SELECT of lines 69-73 runs
LeerTodasMiss(s) ==
    /\ ses[s].pc = "l246"
    /\ cacheTodas = <<>>
    /\ ses' = [ses EXCEPT ![s].pc = "l246w", ![s].calc = leer_todas_reservas(tabla)]
    /\ UNCHANGED <<tabla, cacheDia, cacheTodas, ejecuciones, borrados, llamadas>>
    /\ UNCHANGED varsSlots

\* ... and its value is stored and returned
LeerTodasGuardar(s) ==
    /\ ses[s].pc = "l246w"
    /\ cacheTodas' = <<ses[s].calc>>
    /\ ses' = [ses EXCEPT ![s].pc = "l259", ![s].df_all = ses[s].calc,
                          ![s].calc = {}]
    /\ UNCHANGED <<tabla, cacheDia, ejecuciones, borrados, llamadas>>
    /\ UNCHANGED varsSlots

\* lines 247-259: the run ends and the locals of the script are gone
Fin(s) ==
    /\ ses[s].pc = "l259"
    /\ ses' = [ses EXCEPT ![s] = [SesionInicial EXCEPT !.tras = ses[s].tras]]
    /\ UNCHANGED <<tabla, cacheDia, cacheTodas, ejecuciones, borrados, llamadas>>
    /\ UNCHANGED varsSlots

\* borrar_reservas_dia(fecha), lines 77-78: the DELETE. app.py defines the
\* function and calls it nowhere; here a session may call it between two
\* runs of its script, for any date.
Borrar78(s, d) ==
    /\ ses[s].pc = "espera"
    /\ borrados < MaxBorrados
    /\ borrados' = borrados + 1
    /\ tabla' = TablaTrasDelete(tabla, IsoFormat(d))
    /\ llamadas' = {c \in llamadas : c.fecha # IsoFormat(d)}
    /\ ses' = [ses EXCEPT ![s] = [SesionInicial EXCEPT !.pc = "b79", !.fecha = d,
                                                      !.tras = ses[s].tras]]
    /\ UNCHANGED <<cacheDia, cacheTodas, ejecuciones>>
    /\ UNCHANGED varsSlots

\* leer_reservas_dia.clear(), line 79
Borrar79(s) ==
    /\ ses[s].pc = "b79"
    /\ cacheDia' = Clear(cacheDia)
    /\ ses' = [ses EXCEPT ![s].pc = "b80"]
    /\ UNCHANGED <<tabla, cacheTodas, ejecuciones, borrados, llamadas>>
    /\ UNCHANGED varsSlots

\* leer_todas_reservas.clear(), line 80, and the return
Borrar80(s) ==
    /\ ses[s].pc = "b80"
    /\ cacheTodas' = Clear(cacheTodas)
    /\ ses' = [ses EXCEPT ![s] = [SesionInicial EXCEPT !.tras = FechaStr(s)]]
    /\ UNCHANGED <<tabla, cacheDia, ejecuciones, borrados, llamadas>>
    /\ UNCHANGED varsSlots

Next ==
    \E s \in Sesiones :
        \/ \E d \in Fechas, e \in BOOLEAN : Iniciar(s, d, e)
        \/ Leer188Hit(s)
        \/ Leer188Miss(s)
        \/ Leer188Guardar(s)
        \/ FormSinEnviar(s)
        \/ \E i \in 1..MaxPick, n \in Nombres, c \in Contactos, m \in Comentarios :
              FormEnviar(s, i, n, c, m)
        \/ Limpiar224(s)
        \/ Leer225Hit(s)
        \/ Leer225Miss(s)
        \/ Leer225Guardar(s)
        \/ LeerTodasHit(s)
        \/ LeerTodasMiss(s)
        \/ LeerTodasGuardar(s)
        \/ Fin(s)
        \/ \E d \in Fechas : Borrar78(s, d)
        \/ Borrar79(s)
        \/ Borrar80(s)

Spec == Init /\ [][Next]_vars

-----------------------------------------------------------------------------
(* The sessions on one date: every user works on day 1 and books under the    *)
(* same name, and nobody calls borrar_reservas_dia. With fewer inputs a third *)
(* script run fits in.                                                        *)

IniciarCarrera(s, e) == IniciarHasta(s, 1, e, MaxEjecucionesCarrera)

FormEnviarCarrera(s, i) == FormEnviar(s, i, <<LetraB>>, <<LetraC, SP>>, <<>>)

NextCarrera ==
    \E s \in Sesiones :
        \/ \E e \in BOOLEAN : IniciarCarrera(s, e)
        \/ Leer188Hit(s)
        \/ Leer188Miss(s)
        \/ Leer188Guardar(s)
        \/ FormSinEnviar(s)
        \/ \E i \in 1..MaxPick : FormEnviarCarrera(s, i)
        \/ Limpiar224(s)
        \/ Leer225Hit(s)
        \/ Leer225Miss(s)
        \/ Leer225Guardar(s)
        \/ LeerTodasHit(s)
        \/ LeerTodasMiss(s)
        \/ LeerTodasGuardar(s)
        \/ Fin(s)

SpecCarrera == Init /\ [][NextCarrera]_vars

-----------------------------------------------------------------------------
(* Slot generator harness: the generator applied to a day configuration *)

HorasInicio == {Time(9, 0), Time(13, 0), Time(18, 0)}
HorasFin == {Time(9, 0), Time(13, 0), Time(18, 0), Time(23, 50)}
HorasBloqueoInicio == {Time(9, 0), Time(12, 50), Time(13, 0), Time(18, 0)}
HorasBloqueoFin == {Time(12, 0), Time(13, 0), Time(14, 0), Time(23, 59)}
Intervalos == {30, 45, 60}

Configs ==
    [inicio : HorasInicio, fin : HorasFin, bi : HorasBloqueoInicio,
     bf : HorasBloqueoFin, iv : Intervalos]

InitSlots ==
    /\ InitApp
    /\ cfg \in Configs
    /\ fechaCfg \in Fechas
    /\ salida = <<>>
    /\ fase = "entrada"

\* the generator of lines 167-176 run on the configuration cfg
GenerarConfig ==
    /\ fase = "entrada"
    /\ salida' = SlotsDe(fechaCfg, cfg.inicio, cfg.fin, cfg.bi, cfg.bf, cfg.iv)
    /\ fase' = "hecho"
    /\ UNCHANGED <<cfg, fechaCfg>>
    /\ UNCHANGED varsApp

\* generar_slots(fecha) as the script calls it, line 190
GenerarSlots ==
    /\ fase = "entrada"
    /\ salida' = generar_slots(fechaCfg)
    /\ fase' = "codigo"
    /\ UNCHANGED <<cfg, fechaCfg>>
    /\ UNCHANGED varsApp

NextSlots == GenerarConfig \/ GenerarSlots

SpecSlots == InitSlots /\ [][NextSlots]_vars

-----------------------------------------------------------------------------
(* Helpers of the properties *)

Rango(seq) == {seq[i] : i \in 1..Len(seq)}

EsDigito(c) == 48 <= c /\ c <= 57

\* the minutes of the day a "HH:MM" label stands for
MinutosDe(l) == ((l[1] - 48) * 10 + (l[2] - 48)) * 60 + (l[4] - 48) * 10 + (l[5] - 48)

\* l is a 24-hour "HH:MM" label
EsHHMM(l) ==
    /\ Len(l) = 5
    /\ EsDigito(l[1]) /\ EsDigito(l[2]) /\ l[3] = COLON
    /\ EsDigito(l[4]) /\ EsDigito(l[5])
    /\ (l[1] - 48) * 10 + (l[2] - 48) < 24
    /\ (l[4] - 48) * 10 + (l[5] - 48) < 60

\* the label "ab:cd", written digit by digit
HM(a, b, c, d) == <<48 + a, 48 + b, 58, 48 + c, 48 + d>>

\* generar_slots of each date of the model
SlotsFecha == [d \in Fechas |-> generar_slots(d)]

Clave(r) == <<r.fecha, r.hora>>

-----------------------------------------------------------------------------
(* Properties *)

\* C1: in every reachable state the reservas table holds at most one row for
\* each (fecha, hora) pair.
C1_ClaveUnica ==
    \A r \in tabla : \A q \in tabla : Clave(r) = Clave(q) => r = q

\* C1 witness: after a DELETE, a second INSERT on a taken key was attempted.
C1_Testigo ==
    /\ borrados > 0
    /\ tabla # {}
    /\ \E c \in llamadas : ~c.ok

\* C2: of the agregar_reserva calls on one key that was free when the first
\* of them started, with no borrar_reservas_dia of that date since, exactly one
\* returned True and the others returned False, and the table holds exactly
\* one row for the key, carrying the name of the caller that got True.
C2_UnGanador ==
    \A c \in llamadas :
        LET grupo == {x \in llamadas : x.fecha = c.fecha /\ x.hora = c.hora}
            ganan == {x \in grupo : x.ok}
            filas == {r \in tabla : r.fecha = c.fecha /\ r.hora = c.hora}
        IN  /\ Cardinality(ganan) = 1
            /\ Cardinality(filas) = 1
            /\ \A g \in ganan : \A r \in filas : r.nombre = g.nombre

\* C2 witness: two sessions called agregar_reserva on the same key with
\* different names; one got True and the other False.
C2_Testigo ==
    \E c \in llamadas : \E x \in llamadas :
        /\ c.fecha = x.fecha /\ c.hora = x.hora
        /\ c.ses # x.ses /\ c.nombre # x.nombre
        /\ c.ok /\ ~x.ok

\* session s calls agregar_reserva in this step
LlamaEnPaso(s) == ses[s].pc = "form" /\ ses'[s].nllam > ses[s].nllam

\* C3: an agregar_reserva call for a key that already has a row returns False
\* and leaves the table unchanged (no row added, the existing row as it was).
C3_ConflictoSinMutacion ==
    [][\A s \in Sesiones :
         (LlamaEnPaso(s) /\ ViolaUnique(tabla, FechaStr(s), ses'[s].slot))
            => (ses'[s].resultado = "conflicto" /\ tabla' = tabla)]_vars

\* C3 witness: a submission that ended in the conflict outcome.
C3_Testigo == \E s \in Sesiones : ses[s].resultado = "conflicto"

\* session s takes a value of leer_reservas_dia from the cache in this step
LeeDiaDeCache(s) ==
    /\ ses[s].pc \in {"l188", "l225"}
    /\ ses'[s].pc \notin {"l188", "l225", "l188w", "l225w"}

\* C4: the first leer_reservas_dia read of a date by a session after its own
\* confirmed booking or its own borrar_reservas_dia of that date returns
\* exactly the rows the table holds for the date: no cached result is served
\* in place of them.
C4_LecturaTrasEscritura ==
    [][\A s \in Sesiones :
         (ses[s].tras = FechaStr(s) /\ LeeDiaDeCache(s))
            => ses'[s].df_dia = leer_reservas_dia(tabla, FechaStr(s))]_vars

\* session s takes the value of leer_todas_reservas from the cache in this step
LeeTodasDeCache(s) == ses[s].pc = "l246" /\ ses'[s].pc = "l259"

\* C5: the leer_todas_reservas() call that follows a confirmed booking returns
\* every row of the table, the new one included.
C5_TodasTrasInsert ==
    [][\A s \in Sesiones :
         (ses[s].resultado = "confirmada" /\ LeeTodasDeCache(s))
            => tabla \subseteq Rango(ses'[s].df_all)]_vars

\* C6: the availability partition of every date computed from the store, and
\* the one every session holds at its form, satisfy: disponibles and ocupadas
\* together are generar_slots(fecha), they are disjoint, and disponibles keeps
\* the generator's order.
Particion(todos, disp, ocup) ==
    LET libres == Rango(disp)
    IN  /\ libres \cup ocup = Rango(todos)
        /\ libres \cap ocup = {}
        /\ disp = SelectSeq(todos, LAMBDA x : x \in libres)

C6_Particion ==
    /\ \A d \in Fechas :
         LET ocup == Ocupadas(leer_reservas_dia(tabla, IsoFormat(d)))
         IN  Particion(SlotsFecha[d], Disponibles(SlotsFecha[d], ocup), ocup)
    /\ \A s \in Sesiones :
         ses[s].pc = "form" =>
            Particion(SlotsFecha[ses[s].fecha], ses[s].disponibles,
                      Ocupadas(ses[s].df_dia))

\* C6 witness: a session at its form with taken and free slots, after a DELETE.
C6_Testigo ==
    \E s \in Sesiones :
        /\ ses[s].pc = "form"
        /\ Ocupadas(ses[s].df_dia) # {}
        /\ ses[s].disponibles # <<>>
        /\ borrados > 0

\* C7: for every day configuration the generator returns a strictly
\* increasing, duplicate-free sequence of HH:MM labels, none of them in
\* [blackout_start, blackout_end).
C7_SlotsOrdenados ==
    fase = "hecho" =>
        /\ \A i \in 1..Len(salida) : EsHHMM(salida[i])
        /\ \A i \in 1..Len(salida) - 1 : StrLt(salida[i], salida[i + 1])
        /\ Cardinality(Rango(salida)) = Len(salida)
        /\ \A i \in 1..Len(salida) :
             ~(cfg.bi <= MinutosDe(salida[i]) /\ MinutosDe(salida[i]) < cfg.bf)

\* C7 witness: a configuration whose blackout lies inside the window and
\* removed slots that the window would hold.
C7_Testigo ==
    /\ fase = "hecho"
    /\ cfg.inicio <= cfg.bi /\ cfg.bi < cfg.bf /\ cfg.bf <= cfg.fin
    /\ Len(salida) >= 2
    /\ Len(salida) < (cfg.fin - cfg.inicio) \div cfg.iv + 1

\* the 20-minute grid from 09:00 to 18:00 without 13:00, 13:20 and 13:40
RejillaEsperada ==
    << HM(0,9,0,0), HM(0,9,2,0), HM(0,9,4,0),
       HM(1,0,0,0), HM(1,0,2,0), HM(1,0,4,0),
       HM(1,1,0,0), HM(1,1,2,0), HM(1,1,4,0),
       HM(1,2,0,0), HM(1,2,2,0), HM(1,2,4,0),
       HM(1,4,0,0), HM(1,4,2,0), HM(1,4,4,0),
       HM(1,5,0,0), HM(1,5,2,0), HM(1,5,4,0),
       HM(1,6,0,0), HM(1,6,2,0), HM(1,6,4,0),
       HM(1,7,0,0), HM(1,7,2,0), HM(1,7,4,0),
       HM(1,8,0,0) >>

\* C8: with window 09:00-18:00, blackout 13:00-14:00 and 20 minutes,
\* generar_slots(d) is, for every date d, the 20-minute grid from 09:00 to
\* 18:00 without 13:00, 13:20 and 13:40; 12:40, 14:00 and 18:00 are in it.
C8_RejillaPorDefecto ==
    fase = "codigo" =>
        /\ salida = RejillaEsperada
        /\ {HM(1,2,4,0), HM(1,4,0,0), HM(1,8,0,0)} \subseteq Rango(salida)
        /\ {HM(1,3,0,0), HM(1,3,2,0), HM(1,3,4,0)} \cap Rango(salida) = {}

\* C8 witness: generar_slots has returned its list for a date.
C8_Testigo == fase = "codigo" /\ Len(salida) = 25 /\ fechaCfg = 2

\* The per-date day end of the specification (section 3, "Day Configuration";
\* section 8, scenario B): the dates in DiasCortos end at 13:00.
DiasCortos == {2}
day_end(d) == IF d \in DiasCortos THEN Time(13, 0) ELSE FIN

\* C9: for a date whose day end is shortened to 13:00, generar_slots returns
\* no label later than 13:00.
C9_FinCortoPrevalece ==
    (fase = "codigo" /\ day_end(fechaCfg) = Time(13, 0)) =>
        \A i \in 1..Len(salida) : StrLeq(salida[i], HM(1,3,0,0))

\* C10: a submission whose slot is taken at the time it is committed ends as
\* an input-validation rejection, and agregar_reserva is not called for it.
C10_RevalidaAlEnviar ==
    \A s \in Sesiones :
        ses[s].tomado =>
            (ses[s].resultado \in {"aviso_slot", "aviso_nombre"} /\ ses[s].nllam = 0)

\* the text is empty or all whitespace: str.strip() leaves nothing of it
EsBlanco(txt) == \A i \in 1..Len(txt) : txt[i] = SP

\* session s runs lines 215-227 with "Reservar" pressed in this step
EnviaEnPaso(s) == ses[s].pc = "form" /\ ses[s].enviar /\ ses'[s] # ses[s]

\* C11: a submission with a slot selected and a name that is empty after
\* trimming ends in the name warning; agregar_reserva is not called and the
\* table is unchanged.
C11_NombreVacio ==
    [][\A s \in Sesiones :
         (EnviaEnPaso(s) /\ ses'[s].slot # NoSlot /\ EsBlanco(ses'[s].tecleado))
            => /\ ses'[s].resultado = "aviso_nombre"
               /\ ses'[s].nllam = 0
               /\ llamadas' = llamadas
               /\ tabla' = tabla]_vars

\* C11 witness: a name of one blank was submitted with a slot selected and
\* ended in the name warning.
C11_Testigo ==
    \E s \in Sesiones :
        /\ ses[s].resultado = "aviso_nombre"
        /\ ses[s].tecleado = <<SP>>
        /\ ses[s].slot # NoSlot

\* C12: every submission ends in exactly one of the outcomes: the success
\* message if and only if agregar_reserva returned True, the conflict error if
\* and only if it returned False, and a warning if and only if the slot was
\* empty or the trimmed name was empty (and then agregar_reserva was not
\* called).
C12_UnResultado ==
    [][\A s \in Sesiones :
         EnviaEnPaso(s) =>
            LET nuevas == llamadas' \ llamadas
                res == ses'[s].resultado
                invalida == ses'[s].slot = NoSlot \/ EsBlanco(ses'[s].tecleado)
            IN  /\ res \in {"confirmada", "conflicto", "aviso_slot", "aviso_nombre"}
                /\ Cardinality(nuevas) <= 1
                /\ (res = "confirmada") <=> (\E c \in nuevas : c.ok)
                /\ (res = "conflicto") <=> (\E c \in nuevas : ~c.ok)
                /\ (res \in {"aviso_slot", "aviso_nombre"}) <=> invalida
                /\ invalida <=> (nuevas = {})]_vars

\* C12 witness: one submission was confirmed and another, with a name and no
\* slot to select, ended in the slot warning.
C12_Testigo ==
    \E s \in Sesiones : \E t \in Sesiones :
        /\ ses[s].resultado = "confirmada"
        /\ ses[t].resultado = "aviso_slot"
        /\ ~EsBlanco(ses[t].tecleado)

\* C13: a submission calls agregar_reserva at most once; after a conflict or
\* a warning the run is past the form and makes no further insert attempt,
\* for the same or for another slot.
C13_SinReintento ==
    \A s \in Sesiones :
        /\ ses[s].nllam <= 1
        /\ Cardinality({c \in llamadas : c.ses = s /\ c.ejec = ses[s].ejec}) <= 1
        /\ ses[s].resultado \in {"conflicto", "aviso_slot", "aviso_nombre"}
              => ses[s].pc \in {"l246", "l246w", "l259"}

\* C13 witness: a submission lost the race with other slots still on offer in
\* its selectbox, and made its one call.
C13_Testigo ==
    \E s \in Sesiones :
        /\ ses[s].resultado = "conflicto"
        /\ ses[s].nllam = 1
        /\ Len(ses[s].disponibles) > 1

\* session s runs the SELECT of leer_reservas_dia (a cache miss) in this step
SelectDiaEnPaso(s) ==
    /\ ses[s].pc \in {"l188", "l225"}
    /\ ses'[s].pc \in {"l188w", "l225w"}

BorraEnPaso(s, f) ==
    ses[s].pc = "espera" /\ ses'[s].pc = "b79" /\ IsoFormat(ses'[s].fecha) = f

\* C15: a committed row is never rewritten (no later state holds a row of
\* its key with other field values) and leaves the table only in a step of
\* borrar_reservas_dia called for the row's own date.
C15_Inmutable ==
    [][tabla' # tabla =>
         \A r \in tabla :
             /\ \A q \in tabla' : Clave(q) = Clave(r) => q = r
             /\ r \notin tabla' => \E s \in Sesiones : BorraEnPaso(s, r.fecha)]_vars

\* C15 witness: a row is in the table as it was committed after a conflicting
\* insert on its key under another name, and after a borrar_reservas_dia of
\* the other date.
C15_Testigo ==
    /\ borrados > 0
    /\ tabla \cap ReservasPrevias = {}
    /\ \E r \in tabla : \E c \in llamadas :
          /\ ~c.ok /\ c.fecha = r.fecha /\ c.hora = r.hora
          /\ c.nombre # r.nombre

\* C16: every row of the table has a hora that generar_slots returns for the
\* row's fecha, outside the blackout and not after the day end, and a nombre
\* that is not empty and has no blank at either end.
C16_FilasValidas ==
    \A r \in tabla :
        /\ \E d \in Fechas : IsoFormat(d) = r.fecha /\ r.hora \in Rango(SlotsFecha[d])
        /\ EsHHMM(r.hora)
        /\ ~(BLOQUEO_INICIO <= MinutosDe(r.hora) /\ MinutosDe(r.hora) < BLOQUEO_FIN)
        /\ MinutosDe(r.hora) <= FIN
        /\ r.nombre # <<>>
        /\ r.nombre[1] # SP /\ r.nombre[Len(r.nombre)] # SP

\* C16 witness: the form has committed a row for a name typed with blanks
\* around it.
C16_Testigo ==
    \E s \in Sesiones : \E r \in tabla :
        /\ ses[s].resultado = "confirmada"
        /\ ses[s].tecleado = <<SP, LetraA, SP>>
        /\ r.fecha = FechaStr(s) /\ r.hora = ses[s].slot
        /\ r.created_at >= 1

\* C17: borrar_reservas_dia(D) removes every row whose fecha is D and no
\* other row, adds none, and on its way to the return it clears the store of
\* leer_reservas_dia and then the store of leer_todas_reservas.
C17_BorrarDia ==
    [][\A s \in Sesiones :
         /\ (ses[s].pc = "espera" /\ ses'[s].pc = "b79") =>
               /\ tabla' \subseteq tabla
               /\ \A r \in tabla : r \in tabla' <=> r.fecha # IsoFormat(ses'[s].fecha)
         /\ (ses[s].pc = "b79" /\ ses'[s] # ses[s]) =>
               /\ ses'[s].pc = "b80"
               /\ DOMAIN cacheDia' = {}
               /\ tabla' = tabla
         /\ (ses[s].pc = "b80" /\ ses'[s] # ses[s]) =>
               /\ ses'[s].pc = "espera"
               /\ cacheTodas' = <<>>
               /\ tabla' = tabla]_vars

\* C17 witness: inside borrar_reservas_dia of day 2 the rows day 2 started
\* with are gone, rows of the other date are in the table, the store of
\* leer_reservas_dia is empty and the store of leer_todas_reservas, still to
\* be cleared, is not.
C17_Testigo ==
    \E s \in Sesiones :
        /\ ses[s].pc = "b80"
        /\ DOMAIN cacheDia = {}
        /\ cacheTodas # <<>>
        /\ FechaStr(s) = IsoFormat(2)
        /\ \A r \in tabla : r.fecha # FechaStr(s)
        /\ tabla # {}

\* C19: agregar_reserva returns False exactly when the table holds a row of
\* the same (fecha, hora) at the moment of the insert; when it holds none the
\* call returns True and the table gains exactly the new row, also next to
\* rows of other keys and after a borrar_reservas_dia removed an earlier row
\* of the key.
C19_FalseSoloSiOcupada ==
    [][\A s \in Sesiones :
         LlamaEnPaso(s) =>
            LET f == FechaStr(s)
                h == ses'[s].slot
                presente == \E r \in tabla : r.fecha = f /\ r.hora = h
            IN  /\ \A c \in llamadas' \ llamadas : c.ok <=> ~presente
                /\ (ses'[s].resultado = "conflicto") <=> presente
                /\ ~presente =>
                      /\ ses'[s].resultado = "confirmada"
                      /\ \E r \in tabla' :
                            /\ r.fecha = f /\ r.hora = h
                            /\ r.nombre = ses'[s].nombre
                            /\ tabla' = tabla \cup {r}
                            /\ r \notin tabla]_vars

\* C19 witness: a key of day 2, taken when the process started, is held by a
\* row committed after a borrar_reservas_dia of day 2.
C19_Testigo ==
    /\ borrados > 0
    /\ \E r \in tabla :
          /\ r.created_at >= 1
          /\ Fila(r.fecha, r.hora, <<LetraA>>, <<>>, <<>>, 0) \in ReservasPrevias

\* the commit of call c is complete: the insert returned True and the
\* leer_reservas_dia.clear() of line 224 that follows it has run
Completada(c) == c.ok /\ ~(ses[c.ses].pc = "l224" /\ ses[c.ses].ejec = c.ejec)

\* C18: a leer_reservas_dia(D) call that starts after another session's
\* commit for D is complete (insert and clear) returns the committed row,
\* whether the call runs the SELECT or is served from the cache.
C18_SinEntradaVieja ==
    [][\A s \in Sesiones :
         (LeeDiaDeCache(s) \/ SelectDiaEnPaso(s)) =>
            \A c \in llamadas :
                (Completada(c) /\ c.ses # s /\ c.fecha = FechaStr(s)) =>
                    \E r \in (IF LeeDiaDeCache(s) THEN ses'[s].df_dia ELSE ses'[s].calc) :
                        r.hora = c.hora /\ r.nombre = c.nombre]_vars

====
